---- MODULE Spec2Model ----
(***************************************************************************)
(* Model of src/metadata.py: the GlobalInformation registry (load, save,   *)
(* fresh initialisation), the recording of attribute values by Component,  *)
(* and the construction-time validation of Action, CorpusVersion, Corpus.  *)
(*                                                                         *)
(* Python objects are records [t |-> type name, v |-> payload].  Free text *)
(* (names, providers, paths, URLs) is a sequence of one-character strings, *)
(* because the code inspects its characters; codes that are only tested    *)
(* for membership in a static table (languages, formats, encodings) are    *)
(* atoms.  An exception is the name of its Python class ("AssertionError", *)
(* "AttributeError", ...); "ok" is normal return.                          *)
(***************************************************************************)
EXTENDS Integers, Sequences, FiniteSets, TLC

VARIABLES
    used_attributes,   \* GlobalInformation.used_attributes of each registry instance
    storage,           \* the persisted registry file
    input,             \* the argument drawn for a function applied on its own
    last               \* the last call: operation, arguments, outcome

vars == <<used_attributes, storage, input, last>>

(***************************************************************************)
(* Bounds of the model.                                                    *)
(***************************************************************************)
\* longest langs list given to a CorpusVersion
MaxLangs == 2
\* longest corpus_versions list given to a Corpus or to _check_prev
MaxVersions == 3
\* longest attribute_names list given to _add_global_attributes directly
MaxNames == 2

(***************************************************************************)
(* Static enumerations.                                                    *)
(***************************************************************************)
LANGS ==
    { "ab", "aa", "af", "ak", "sq", "am", "ar", "an", "hy", "as", "av", "ae", "ay", "az", "bm",
      "ba", "eu", "be", "bn", "bh", "bi", "bs", "br", "bg", "my", "ca", "ch", "ce", "ny", "zh",
      "cv", "kw", "co", "cr", "hr", "cs", "da", "dv", "nl", "dz", "en", "eo", "et", "ee", "fo",
      "fj", "fi", "fr", "ff", "gl", "ka", "de", "el", "gn", "gu", "ht", "ha", "he", "hz", "hi",
      "ho", "hu", "ia", "id", "ie", "ga", "ig", "ik", "io", "is", "it", "iu", "ja", "jv", "kl",
      "kn", "kr", "ks", "kk", "km", "ki", "rw", "ky", "kv", "kg", "ko", "ku", "kj", "la", "lb",
      "lg", "li", "ln", "lo", "lt", "lu", "lv", "gv", "mk", "mg", "ms", "ml", "mt", "mi", "mr",
      "mh", "mn", "na", "nv", "nb", "nd", "ne", "ng", "nn", "no", "ii", "nr", "oc", "oj", "cu",
      "om", "or", "os", "pa", "pi", "fa", "pl", "ps", "pt", "qu", "rm", "rn", "ro", "ru", "sa",
      "sc", "sd", "se", "sm", "sg", "sr", "gd", "sn", "si", "sk", "sl", "so", "st", "es", "su",
      "sw", "ss", "sv", "ta", "te", "tg", "th", "ti", "bo", "tk", "tl", "tn", "to", "tr", "ts",
      "tt", "tw", "ty", "ug", "uk", "ur", "uz", "ve", "vi", "vo", "wa", "cy", "wo", "fy", "xh",
      "yi", "yo", "za", "zu" }

FORMATS ==
    { "pdf", "json", "xml", "txt" }

ENCODINGS ==
    { "ascii", "big5", "big5hkscs", "cp037", "cp273", "cp424", "cp437", "cp500", "cp720", "cp737",
      "cp775", "cp850", "cp852", "cp855", "cp856", "cp857", "cp858", "cp860", "cp861", "cp862",
      "cp863", "cp864", "cp865", "cp866", "cp869", "cp874", "cp875", "cp932", "cp949", "cp950",
      "cp1006", "cp1026", "cp1125", "cp1140", "cp1250", "cp1251", "cp1252", "cp1253", "cp1254",
      "cp1255", "cp1256", "cp1257", "cp1258", "cp65001", "euc-jp", "euc-jis-2004", "euc-jisx0213",
      "euc-kr", "gb2312", "gbk", "gb18030", "hz", "iso2022-jp", "iso2022-jp-1", "iso2022-jp-2",
      "iso2022-jp-2004", "iso2022-jp-3", "iso2022-jp-ext", "iso2022-kr", "latin-1", "iso8859-2",
      "iso8859-3", "iso8859-4", "iso8859-5", "iso8859-6", "iso8859-7", "iso8859-8", "iso8859-9",
      "iso8859-10", "iso8859-11", "iso8859-13", "iso8859-14", "iso8859-15", "iso8859-16", "johab",
      "koi8-r", "koi8-t", "koi8-u", "kz1048", "mac-cyrillic", "mac-greek", "mac-iceland",
      "mac-latin2", "mac-roman", "mac-turkish", "ptcp154", "shift-jis", "shift-jis-2004",
      "shift-jisx0213", "utf-32", "utf-32-be", "utf-32-le", "utf-16", "utf-16-be", "utf-16-le",
      "utf-7", "utf-8", "utf-8-sig" }

(***************************************************************************)
(* Python values.                                                          *)
(***************************************************************************)
PyNone == [t |-> "NoneType", v |-> <<>>]

PyStr(s) == [t |-> "str", v |-> s]

PyPath(s) == [t |-> "Path", v |-> s]

PyBool(b) == [t |-> "bool", v |-> b]

PyList(s) == [t |-> "list", v |-> s]

PyDatetime(fields) == [t |-> "datetime", v |-> fields]

PyDict(d) == [t |-> "dict", v |-> d]

\* a == b for the value types above: values of different types are unequal
\* (a str never equals a Path, None equals only None)
PyEq(a, b) == a.t = b.t /\ a.v = b.v

\* value in values (list membership by ==)
PyIn(value, values) == \E i \in 1..Len(values) : PyEq(values[i], value)

\* the empty dict {}
EmptyDict == <<>>

\* d[k] = v on a dict d
DictSet(d, k, v) == [x \in (DOMAIN d) \cup {k} |-> IF x = k THEN v ELSE d[x]]

(***************************************************************************)
(* Text.                                                                   *)
(***************************************************************************)
UpperCase ==
    <<"A", "B", "C", "D", "E", "F", "G", "H", "I", "J", "K", "L", "M",
      "N", "O", "P", "Q", "R", "S", "T", "U", "V", "W", "X", "Y", "Z">>

LowerCase ==
    <<"a", "b", "c", "d", "e", "f", "g", "h", "i", "j", "k", "l", "m",
      "n", "o", "p", "q", "r", "s", "t", "u", "v", "w", "x", "y", "z">>

Digits == <<"0", "1", "2", "3", "4", "5", "6", "7", "8", "9">>

\* the characters of a sequence, as a set
Chars(s) == {s[i] : i \in 1..Len(s)}

\* str.lower() on ASCII text
lower(s) ==
    [i \in 1..Len(s) |->
        IF \E k \in 1..Len(UpperCase) : UpperCase[k] = s[i]
        THEN LowerCase[CHOOSE k \in 1..Len(UpperCase) : UpperCase[k] = s[i]]
        ELSE s[i]]

\* position of the first occurrence of one of the characters cs in s at or
\* after position from, or Len(s) + 1 when there is none
RECURSIVE Find(_, _, _)
Find(s, cs, from) ==
    IF from > Len(s) THEN Len(s) + 1
    ELSE IF s[from] \in cs THEN from
    ELSE Find(s, cs, from + 1)

\* position of the last "/" of s, or 0
RECURSIVE LastSlash(_, _)
LastSlash(s, i) ==
    IF i = 0 THEN 0
    ELSE IF s[i] = "/" THEN i
    ELSE LastSlash(s, i - 1)

(***************************************************************************)
(* The file system the existence checks look at (POSIX, relative paths     *)
(* resolved against the working directory).  A file name may hold a        *)
(* backslash; it never holds "/".                                          *)
(***************************************************************************)
RegularFiles ==
    { <<"v", "1">>, <<"v", "2">>, <<"v", "\\", "1">>, <<"v", "\\", "2">>,
      <<"/", "a", "b", "s", "\\", "v">>,
      <<"r", "u", "n", ".", "s", "h">>, <<"r", "u", "n", ".", "p", "y">>,
      <<"s", "u", "b", "/", "r", "u", "n", ".", "s", "h">> }

Directories == { <<"s", "u", "b">>, <<"d", "i", "r", "\\", "v">> }

\* Path.exists()
exists(p) == p.v \in RegularFiles \cup Directories

\* Path.is_file()
is_file(p) == p.v \in RegularFiles

\* Path.is_absolute()
is_absolute(p) == Len(p.v) > 0 /\ p.v[1] = "/"

\* Path.name: the final component
name(p) == SubSeq(p.v, LastSlash(p.v, Len(p.v)) + 1, Len(p.v))

(***************************************************************************)
(* JSON.  json.dumps refuses a datetime and a Path (TypeError); text, None *)
(* and booleans become JSON strings, null and true/false, and an empty     *)
(* list becomes [].  A JSON document is kept as its parsed structure.      *)
(***************************************************************************)
\* whether json.dumps can encode the value
JsonSerializable(value) ==
    \/ value.t \in {"str", "NoneType", "bool"}
    \/ value.t = "list" /\ value.v = <<>>

\* the JSON value json.dumps writes for a Python value
JsonEncode(value) ==
    CASE value.t = "str" -> [j |-> "string", v |-> value.v]
      [] value.t = "NoneType" -> [j |-> "null", v |-> <<>>]
      [] value.t = "bool" -> [j |-> IF value.v THEN "true" ELSE "false", v |-> <<>>]
      [] value.t = "list" -> [j |-> "array", v |-> <<>>]

\* the Python value json.loads builds for a JSON value
JsonDecode(jv) ==
    CASE jv.j = "string" -> PyStr(jv.v)
      [] jv.j = "null" -> PyNone
      [] jv.j = "true" -> PyBool(TRUE)
      [] jv.j = "false" -> PyBool(FALSE)
      [] jv.j = "array" -> PyList(<<>>)

\* whether json.dumps(d) returns, for d = {class: {attribute: [values]}}
json_dumps_ok(d) ==
    \A c \in DOMAIN d : \A a \in DOMAIN d[c] : \A i \in 1..Len(d[c][a]) :
        JsonSerializable(d[c][a][i])

\* json.dumps(d)
json_dumps(d) ==
    [c \in DOMAIN d |-> [a \in DOMAIN d[c] |->
        [i \in 1..Len(d[c][a]) |-> JsonEncode(d[c][a][i])]]]

\* json.loads(doc)
json_loads(doc) ==
    [c \in DOMAIN doc |-> [a \in DOMAIN doc[c] |->
        [i \in 1..Len(doc[c][a]) |-> JsonDecode(doc[c][a][i])]]]

\* the registry file: missing, empty (opened for writing, nothing written),
\* or holding a JSON document
NoFile == [t |-> "absent", doc |-> <<>>]

EmptyFile == [t |-> "empty", doc |-> <<>>]

JsonFile(doc) == [t |-> "json", doc |-> doc]

\* a registry file left by an earlier run
ExistingRegistry ==
    [c \in {"CorpusVersion"} |-> [a \in {"provider"} |->
        << [j |-> "string", v |-> <<"t", "e", "m", "u">>] >>]]

(***************************************************************************)
(* GlobalInformation.                                                      *)
(***************************************************************************)
\* the registry instances: the process-wide one and a fresh one
Registries == {"g", "fresh"}

\* the record of a call
Call(op, g, args, result) == [op |-> op, g |-> g, args |-> args, result |-> result]

\* GlobalInformation(None) for every instance; the file is missing or was
\* left by an earlier run
Init ==
    /\ used_attributes = [g \in Registries |-> PyNone]
    /\ storage \in {NoFile, JsonFile(ExistingRegistry)}
    /\ input = <<>>
    /\ last = Call("GlobalInformation", "g", <<>>, "ok")

\* the guard of load_from_disk: assert self.used_attributes is None
load_guard(ua) == ua = PyNone

\* GlobalInformation.load_from_disk
load_from_disk(g) ==
    LET result ==
            IF ~load_guard(used_attributes[g]) THEN "AssertionError"
            ELSE IF storage.t = "absent" THEN "FileNotFoundError"
            ELSE IF storage.t = "empty" THEN "JSONDecodeError"
            ELSE "ok"
    IN  /\ used_attributes' =
               IF result = "ok"
               THEN [used_attributes EXCEPT ![g] = PyDict(json_loads(storage.doc))]
               ELSE used_attributes
        /\ last' = Call("load_from_disk", g, <<>>, result)
        /\ UNCHANGED <<storage, input>>

\* GlobalInformation.write_to_disk: open('w') creates or truncates the file
\* before json.dumps runs
write_to_disk(g) ==
    LET ua == used_attributes[g]
        result ==
            IF ua = PyNone THEN "AssertionError"
            ELSE IF ~json_dumps_ok(ua.v) THEN "TypeError"
            ELSE "ok"
    IN  /\ storage' =
               CASE result = "AssertionError" -> storage
                 [] result = "TypeError" -> EmptyFile
                 [] result = "ok" -> JsonFile(json_dumps(ua.v))
        /\ last' = Call("write_to_disk", g, <<>>, result)
        /\ UNCHANGED <<used_attributes, input>>

\* init_dict without its assertion
init_guard_missing(ua) == TRUE

\* the guard of init_dict: assert self.used_attributes is None
init_guard(ua) == ua = PyNone

\* GlobalInformation.init_dict
init_dict(g) ==
    LET result == IF ~init_guard(used_attributes[g]) THEN "AssertionError" ELSE "ok"
    IN  /\ used_attributes' =
               IF result = "ok"
               THEN [used_attributes EXCEPT ![g] = PyDict(EmptyDict)]
               ELSE used_attributes
        /\ last' = Call("init_dict", g, <<>>, result)
        /\ UNCHANGED <<storage, input>>

(***************************************************************************)
(* Component.  An object is [cls |-> class name, attrs |-> the attributes  *)
(* its constructor has assigned].                                          *)
(***************************************************************************)
\* _allow_new that excludes nothing
_allow_new_everything(attribute_name) == TRUE

\* Component._allow_new
_allow_new(attribute_name) == attribute_name \notin {"format", "encoding", "langs"}

\* the append without the membership test of line 109
append_always(values, attribute_value) == Append(values, attribute_value)

\* lines 109-110: append the value unless the list holds it
append_if_absent(values, attribute_value) ==
    IF ~PyIn(attribute_value, values) THEN Append(values, attribute_value) ELSE values

\* One pass of the loop body of _add_global_attributes for an attribute the
\* object has: d after lines 105-110
record_value(d, class_name, attribute_name, attribute_value) ==
    LET d1 == IF class_name \notin DOMAIN d
              THEN DictSet(d, class_name, EmptyDict) ELSE d
        d2 == IF attribute_name \notin DOMAIN d1[class_name]
              THEN DictSet(d1, class_name, DictSet(d1[class_name], attribute_name, <<>>))
              ELSE d1
    IN  DictSet(d2, class_name,
            DictSet(d2[class_name], attribute_name,
                append_if_absent(d2[class_name][attribute_name], attribute_value)))

\* Component._add_global_attributes from position i of attribute_names on:
\* the dict it leaves and how it ends.  The first name _allow_new refuses
\* ends the whole call (return); a name the object has no attribute for
\* raises AttributeError from __getattribute__, after the earlier names
\* were recorded.
RECURSIVE _add_global_attributes(_, _, _, _)
_add_global_attributes(self, attribute_names, i, d) ==
    IF i > Len(attribute_names) THEN [result |-> "ok", d |-> d]
    ELSE LET attribute_name == attribute_names[i]
         IN  IF ~_allow_new(attribute_name) THEN [result |-> "ok", d |-> d]
             ELSE IF attribute_name \notin DOMAIN self.attrs
                  THEN [result |-> "AttributeError", d |-> d]
             ELSE _add_global_attributes(self, attribute_names, i + 1,
                      record_value(d, self.cls, attribute_name,
                                   self.attrs[attribute_name]))

\* Component.get_global_values
get_global_values(d, class_name, attribute_name) ==
    IF class_name \in DOMAIN d /\ attribute_name \in DOMAIN d[class_name]
    THEN d[class_name][attribute_name]
    ELSE <<>>

\* Component.__init__: assert g.used_attributes is not None
Component_init(ua) == IF ua = PyNone THEN "AssertionError" ELSE "ok"

\* What a constructor leaves: after Component.__init__ and _check_fields
\* have passed, the registry dict is the one _add_global_attributes leaves,
\* also when that call raises (the dict is changed in place)
Construct(ua, checked, self, attribute_names) ==
    IF Component_init(ua) # "ok" THEN [result |-> Component_init(ua), ua |-> ua]
    ELSE IF checked # "ok" THEN [result |-> checked, ua |-> ua]
    ELSE LET done == _add_global_attributes(self, attribute_names, 1, ua.v)
         IN  [result |-> done.result, ua |-> PyDict(done.d)]

(***************************************************************************)
(* Action.  Arguments: name, src, tgt (str), script (None, a Path or a     *)
(* str), order (int).                                                      *)
(***************************************************************************)
\* Action._check_fields.  Line 173 calls self.script.exists() before it
\* looks at "is None": None and str have no such method (AttributeError).
\* Line 174 subscripts the script, and a Path is not subscriptable
\* (TypeError), so lines 175-176 are never reached.
Action_check_fields(a) ==
    IF ~(Len(a.name.v) > 0) THEN "AssertionError"
    ELSE IF lower(a.name.v) # a.name.v THEN "AssertionError"
    ELSE IF ~(Len(a.src.v) > 0) THEN "AssertionError"
    ELSE IF lower(a.src.v) # a.src.v THEN "AssertionError"
    ELSE IF ~(Len(a.tgt.v) > 0) THEN "AssertionError"
    ELSE IF lower(a.tgt.v) # a.tgt.v THEN "AssertionError"
    ELSE IF ~(a.script # PyNone \/ a.order = 0) THEN "AssertionError"
    ELSE IF a.script.t # "Path" THEN "AttributeError"
    ELSE IF ~(exists(a.script) /\ is_file(a.script) /\ ~is_absolute(a.script))
         THEN "AssertionError"
    ELSE "TypeError"

\* the Action object after lines 157-161
Action_self(a) ==
    [cls |-> "Action",
     attrs |-> [name |-> a.name, src |-> a.src, tgt |-> a.tgt, script |-> a.script,
                order |-> [t |-> "int", v |-> a.order]]]

\* line 163
Action_attribute_names == <<"name", "src", "tgt", "script", "order">>

\* Action.__init__
Action_init(a, ua) ==
    Construct(ua, Action_check_fields(a), Action_self(a), Action_attribute_names)

(***************************************************************************)
(* CorpusVersion.  Arguments: date (str), prev (None, a str or a Path),    *)
(* path (Path), provider (str), langs (list of codes), parallel (bool),    *)
(* encoding, format_ (codes), released (None or str), license_ (None or    *)
(* str), actions (list).                                                   *)
(***************************************************************************)
\* the number a run of decimal digits s[from..to] writes
RECURSIVE Number(_, _, _)
Number(s, from, to) ==
    IF to < from THEN 0
    ELSE 10 * Number(s, from, to - 1)
         + (CHOOSE k \in 0..9 : Digits[k + 1] = s[to])

\* days of a month of the proleptic Gregorian calendar
DaysIn(year, month) ==
    IF month \in {4, 6, 9, 11} THEN 30
    ELSE IF month # 2 THEN 31
    ELSE IF (year % 4 = 0 /\ year % 100 # 0) \/ year % 400 = 0 THEN 29
    ELSE 28

\* datetime.strptime(date, '%Y%m%dT%H%M%S'): the fields, or ok = FALSE for
\* ValueError.  Covers text of the full width (15 characters) and text
\* holding other characters; Python also reads digit runs that leave out
\* leading zeros, which the arguments drawn here never do.
strptime(s) ==
    IF /\ Len(s) = 15
       /\ s[9] = "T"
       /\ \A i \in (1..15) \ {9} : s[i] \in Chars(Digits)
    THEN LET f == << Number(s, 1, 4), Number(s, 5, 6), Number(s, 7, 8),
                     Number(s, 10, 11), Number(s, 12, 13), Number(s, 14, 15) >>
         IN  IF /\ f[1] >= 1
                /\ f[2] \in 1..12
                /\ f[3] \in 1..DaysIn(f[1], f[2])
                /\ f[4] <= 23 /\ f[5] <= 59 /\ f[6] <= 59
             THEN [ok |-> TRUE, v |-> f]
             ELSE [ok |-> FALSE, v |-> <<>>]
    ELSE [ok |-> FALSE, v |-> <<>>]

\* urlparse(url).scheme: the text before the first ":" when it is a letter
\* followed by letters, digits, "+", "-" or "."
url_scheme(s) ==
    LET colon == Find(s, {":"}, 1)
        head == SubSeq(s, 1, colon - 1)
        letters == Chars(UpperCase) \cup Chars(LowerCase)
    IN  IF /\ colon <= Len(s)
           /\ colon > 1
           /\ s[1] \in letters
           /\ Chars(head) \subseteq letters \cup Chars(Digits) \cup {"+", "-", "."}
        THEN head ELSE <<>>

\* urlparse(url).netloc: after the scheme, the text between "//" and the
\* next "/", "?" or "#"
url_netloc(s) ==
    LET rest == IF url_scheme(s) = <<>> THEN s
                ELSE SubSeq(s, Len(url_scheme(s)) + 2, Len(s))
    IN  IF Len(rest) >= 2 /\ rest[1] = "/" /\ rest[2] = "/"
        THEN SubSeq(rest, 3, Find(rest, {"/", "?", "#"}, 3) - 1)
        ELSE <<>>

\* CorpusVersion._check_released
_check_released(released) ==
    \/ released = PyNone
    \/ url_scheme(released.v) # <<>> /\ url_netloc(released.v) # <<>>

\* line 227: assert '/' not in self.path.name and not '\\' not in self.path.name
path_name_ok(p) == "/" \notin Chars(name(p)) /\ ~("\\" \notin Chars(name(p)))

\* CorpusVersion._check_fields.  len(None) on line 237 is a TypeError.
CorpusVersion_check_fields(a) ==
    IF ~(exists(a.path) /\ is_file(a.path) /\ ~is_absolute(a.path)) THEN "AssertionError"
    ELSE IF ~path_name_ok(a.path) THEN "AssertionError"
    ELSE IF ~(Len(a.provider.v) > 0) THEN "AssertionError"
    ELSE IF lower(a.provider.v) # a.provider.v THEN "AssertionError"
    ELSE IF \E i \in 1..Len(a.langs.v) : a.langs.v[i] \notin LANGS THEN "AssertionError"
    ELSE IF ~(Len(a.langs.v) > 0) THEN "AssertionError"
    ELSE IF ~((Len(a.langs.v) > 1 /\ a.parallel.v) \/ ~a.parallel.v) THEN "AssertionError"
    ELSE IF a.encoding.v \notin ENCODINGS THEN "AssertionError"
    ELSE IF a.format_.v \notin FORMATS THEN "AssertionError"
    ELSE IF ~_check_released(a.released) THEN "AssertionError"
    ELSE IF a.license_ = PyNone THEN "TypeError"
    ELSE IF ~(Len(a.license_.v) > 0 /\ lower(a.license_.v) = a.license_.v)
         THEN "AssertionError"
    ELSE "ok"

\* the CorpusVersion object after lines 210-220
CorpusVersion_self(a) ==
    [cls |-> "CorpusVersion",
     attrs |-> [date |-> PyDatetime(strptime(a.date.v).v), prev |-> a.prev,
                path |-> a.path, provider |-> a.provider, langs |-> a.langs,
                parallel |-> a.parallel, encoding |-> a.encoding,
                format |-> a.format_, released |-> a.released,
                license |-> a.license_, actions |-> a.actions]]

\* lines 222-223
CorpusVersion_attribute_names ==
    <<"date", "prev", "path", "provider", "lang", "parallel", "encoding", "format",
      "released", "actions">>

\* CorpusVersion.__init__: line 210 parses the date (ValueError) after
\* Component.__init__ and before _check_fields
CorpusVersion_init(a, ua) ==
    Construct(ua,
              IF ~strptime(a.date.v).ok THEN "ValueError"
              ELSE CorpusVersion_check_fields(a),
              CorpusVersion_self(a), CorpusVersion_attribute_names)

(***************************************************************************)
(* Corpus.  Arguments: dir_name, pretty_name (str), corpus_versions (list  *)
(* of version objects, of which the code reads prev and path).             *)
(***************************************************************************)
\* _check_prev that lets a later version without predecessor pass
_check_prev_any_root(corpus_versions) ==
    LET paths == {corpus_versions[i].path : i \in 1..Len(corpus_versions)}
    IN  /\ corpus_versions[1].prev = PyNone
        /\ \A i \in 2..Len(corpus_versions) :
               \/ corpus_versions[i].prev = PyNone
               \/ \E p \in paths : PyEq(corpus_versions[i].prev, p)

\* Corpus._check_prev on a list of at least one version: prev in paths is
\* set membership, by ==
_check_prev(corpus_versions) ==
    LET cond == corpus_versions[1].prev = PyNone
        paths == {corpus_versions[i].path : i \in 1..Len(corpus_versions)}
    IN  IF ~cond THEN FALSE
        ELSE \A i \in 2..Len(corpus_versions) :
                 \E p \in paths : PyEq(corpus_versions[i].prev, p)

\* Corpus._check_fields
Corpus_check_fields(a) ==
    IF ~(Len(a.dir_name.v) > 0) THEN "AssertionError"
    ELSE IF lower(a.dir_name.v) # a.dir_name.v THEN "AssertionError"
    ELSE IF ~(Len(a.pretty_name.v) > 0) THEN "AssertionError"
    ELSE IF ~(Len(a.corpus_versions) > 0) THEN "AssertionError"
    ELSE IF ~_check_prev(a.corpus_versions) THEN "AssertionError"
    ELSE "ok"

\* the Corpus object after lines 264-266
Corpus_self(a) ==
    [cls |-> "Corpus",
     attrs |-> [dir_name |-> a.dir_name, pretty_name |-> a.pretty_name,
                corpus_versions |-> PyList(a.corpus_versions)]]

\* line 268
Corpus_attribute_names == <<"dirname", "pretty_name", "corpus_versions">>

\* Corpus.__init__
Corpus_init(a, ua) ==
    Construct(ua, Corpus_check_fields(a), Corpus_self(a), Corpus_attribute_names)

(***************************************************************************)
(* Arguments the calls are made with.                                      *)
(***************************************************************************)
\* sequences over S of length lo..hi
SeqsOf(S, lo, hi) == UNION {[1..n -> S] : n \in lo..hi}

ActionArgs(names, srcs, tgts, scripts, orders) ==
    [name : names, src : srcs, tgt : tgts, script : scripts, order : orders]

CorpusVersionArgs(dates, prevs, paths, provs, langss, pars, encs, fmts, rels, lics) ==
    [date : dates, prev : prevs, path : paths, provider : provs, langs : langss,
     parallel : pars, encoding : encs, format_ : fmts, released : rels,
     license_ : lics, actions : {PyList(<<>>)}]

CorpusArgs(dir_names, pretty_names, versionss) ==
    [dir_name : dir_names, pretty_name : pretty_names, corpus_versions : versionss]

\* a version object as Corpus reads it
Versions(prevs, paths) == [prev : prevs, path : paths]

Tok == PyStr(<<"t", "o", "k">>)

Pdf == PyStr(<<"p", "d", "f">>)

Txt == PyStr(<<"t", "x", "t">>)

RunSh == <<"r", "u", "n", ".", "s", "h">>

Ghost == <<"g", "h", "o", "s", "t">>

Temu == PyStr(<<"t", "e", "m", "u">>)

Bsc == PyStr(<<"b", "s", "c">>)

TeMU == PyStr(<<"T", "e", "M", "U">>)

Mit == PyStr(<<"m", "i", "t">>)

Wiki == PyStr(<<"w", "i", "k", "i">>)

Stamp == PyStr(<<"2", "0", "2", "0", "0", "1", "0", "1", "T", "0", "0", "0", "0", "0", "0">>)

BadStamp == PyStr(<<"2", "0", "2", "0", "-", "0", "1", "-", "0", "1">>)

Zenodo ==
    PyStr(<<"h", "t", "t", "p", "s", ":", "/", "/", "z", "e", "n", "o", "d", "o", ".",
            "o", "r", "g", "/", "r", "e", "c", "o", "r", "d", "/", "1", "2", "3">>)

NotAUrl == PyStr(<<"n", "o", "t", "-", "a", "-", "u", "r", "l">>)

\* a content file whose name holds no separator
PlainPath == PyPath(<<"v", "1">>)

\* content files whose names hold a backslash
SlashPath == PyPath(<<"v", "\\", "1">>)

SlashPath2 == PyPath(<<"v", "\\", "2">>)

LangLists == {PyList(l) : l \in SeqsOf({"en", "xx"}, 0, MaxLangs)}

\* every combination given to the constructors when they are applied on
\* their own
AllActionArgs ==
    ActionArgs({Tok, PyStr(<<"T", "o", "k">>), PyStr(<<>>)}, {Pdf, PyStr(<<>>)},
               {Txt, PyStr(<<"T", "X", "T">>)},
               {PyNone, PyPath(RunSh), PyPath(Ghost), PyStr(RunSh),
                PyPath(<<"s", "u", "b", "/", "r", "u", "n", ".", "s", "h">>),
                PyPath(<<"r", "u", "n", ".", "p", "y">>)},
               {0, 3})

AllCorpusVersionArgs ==
    CorpusVersionArgs({Stamp, BadStamp}, {PyNone, PyStr(SlashPath.v)},
                      {PlainPath, SlashPath, PyPath(Ghost)}, {Temu, Bsc, TeMU},
                      LangLists, {PyBool(TRUE), PyBool(FALSE)},
                      {PyStr("utf-8"), PyStr("utf8")}, {PyStr("txt"), PyStr("doc")},
                      {PyNone, Zenodo, NotAUrl}, {Mit, PyStr(<<"M", "I", "T">>), PyNone})

AllVersions == Versions({PyNone, PyStr(SlashPath.v), SlashPath}, {SlashPath, SlashPath2})

AllCorpusArgs ==
    CorpusArgs({Wiki, PyStr(<<"W", "i", "k", "i">>), PyStr(<<>>)},
               {PyStr(<<"W", "i", "k", "i">>), PyStr(<<>>)},
               SeqsOf(AllVersions, 0, MaxVersions))

\* the combinations given to the constructors between the registry's
\* operations
SomeActionArgs ==
    ActionArgs({Tok}, {Pdf}, {Txt}, {PyNone, PyPath(RunSh), PyPath(Ghost)}, {0, 3})

SomeCorpusVersionArgs ==
    CorpusVersionArgs({Stamp}, {PyNone, PyStr(SlashPath.v)}, {PlainPath, SlashPath},
                      {Temu, Bsc, TeMU}, {PyList(<<"en">>)}, {PyBool(FALSE)},
                      {PyStr("utf-8")}, {PyStr("txt")}, {PyNone}, {Mit})
    \cup CorpusVersionArgs({BadStamp}, {PyNone}, {SlashPath}, {Temu},
                           {PyList(<<"en">>)}, {PyBool(FALSE)}, {PyStr("utf-8")},
                           {PyStr("txt")}, {PyNone}, {Mit})
    \cup CorpusVersionArgs({Stamp}, {PyNone}, {SlashPath}, {Temu},
                           {PyList(<<"en">>), PyList(<<"xx">>)},
                           {PyBool(TRUE)}, {PyStr("utf-8")}, {PyStr("txt")},
                           {Zenodo}, {Mit, PyNone})

SomeCorpusArgs ==
    CorpusArgs({Wiki}, {PyStr(<<"W", "i", "k", "i">>)},
               { <<>>,
                 << [prev |-> PyNone, path |-> SlashPath] >>,
                 << [prev |-> PyNone, path |-> SlashPath],
                    [prev |-> SlashPath, path |-> SlashPath2] >>,
                 << [prev |-> PyNone, path |-> SlashPath],
                    [prev |-> PyStr(SlashPath.v), path |-> SlashPath2] >> })

(***************************************************************************)
(* The calls.                                                              *)
(***************************************************************************)
\* a constructor's outcome on registry g
Constructed(cls, g, a, done) ==
    /\ used_attributes' = [used_attributes EXCEPT ![g] = done.ua]
    /\ last' = Call(cls, g, a, done.result)
    /\ UNCHANGED <<storage, input>>

\* Action(name, src, tgt, script, order, g)
NewAction(g, a) == Constructed("Action", g, a, Action_init(a, used_attributes[g]))

\* CorpusVersion(date, prev, path, provider, langs, parallel, encoding,
\* format_, released, license_, actions, g)
NewCorpusVersion(g, a) ==
    Constructed("CorpusVersion", g, a, CorpusVersion_init(a, used_attributes[g]))

\* Corpus(dir_name, pretty_name, corpus_versions, g)
NewCorpus(g, a) == Constructed("Corpus", g, a, Corpus_init(a, used_attributes[g]))

\* Corpus._check_prev(corpus_versions), called on its own: corpus_versions[0]
\* of an empty list is an IndexError
CheckPrev(corpus_versions) ==
    /\ last' = Call("_check_prev", "g", corpus_versions,
                    IF Len(corpus_versions) = 0 THEN "IndexError"
                    ELSE IF _check_prev(corpus_versions) THEN "True" ELSE "False")
    /\ UNCHANGED <<used_attributes, storage, input>>

Load == \E g \in Registries : load_from_disk(g)

Save == \E g \in Registries : write_to_disk(g)

InitDict == \E g \in Registries : init_dict(g)

\* entities are built on the process-wide registry
MakeAction == \E a \in SomeActionArgs : NewAction("g", a)

MakeCorpusVersion == \E a \in SomeCorpusVersionArgs : NewCorpusVersion("g", a)

MakeCorpus == \E a \in SomeCorpusArgs : NewCorpus("g", a)

Next == Load \/ Save \/ InitDict \/ MakeAction \/ MakeCorpusVersion \/ MakeCorpus

\* one process run: the registry's operations and entity constructions, in
\* any order
Spec == Init /\ [][Next]_vars

(***************************************************************************)
(* _add_global_attributes called with any list of names.                   *)
(***************************************************************************)
\* the objects whose fields have passed _check_fields
CheckedVersions ==
    {CorpusVersion_self(a) : a \in
        {b \in SomeCorpusVersionArgs :
            /\ strptime(b.date.v).ok /\ CorpusVersion_check_fields(b) = "ok"
            /\ b.prev = PyNone}}

\* the names the lists are made of: two the code records and two it excludes
RecordNames == {"provider", "released", "format", "langs"}

\* self._add_global_attributes(attribute_names) on an object of registry g;
\* the object exists only if Component.__init__ found g initialised
AddGlobalAttributes(self, attribute_names) ==
    /\ used_attributes["g"] # PyNone
    /\ LET done == _add_global_attributes(self, attribute_names, 1,
                                          used_attributes["g"].v)
       IN  /\ used_attributes' = [used_attributes EXCEPT !["g"] = PyDict(done.d)]
           /\ last' = Call("_add_global_attributes", "g",
                           [self |-> self, attribute_names |-> attribute_names],
                           done.result)
    /\ UNCHANGED <<storage, input>>

Record ==
    \E self \in CheckedVersions, attribute_names \in SeqsOf(RecordNames, 1, MaxNames) :
        AddGlobalAttributes(self, attribute_names)

\* GlobalInformation({}) for the process-wide registry
InitRecord ==
    /\ used_attributes = [g \in Registries |-> IF g = "g" THEN PyDict(EmptyDict) ELSE PyNone]
    /\ storage = NoFile
    /\ input = <<>>
    /\ last = Call("GlobalInformation", "g", <<>>, "ok")

NextRecord == MakeAction \/ MakeCorpusVersion \/ MakeCorpus \/ Record

\* entity constructions on an empty initialised registry, with the
\* recording also called with other lists of names
SpecRecord == InitRecord /\ [][NextRecord]_vars

(***************************************************************************)
(* The constructors and the lineage check applied on their own, once, to   *)
(* every combination of arguments, on GlobalInformation({}).               *)
(***************************************************************************)
ConstructInputs ==
    [cls : {"Action"}, args : AllActionArgs]
    \cup [cls : {"CorpusVersion"}, args : AllCorpusVersionArgs]
    \cup [cls : {"Corpus"}, args : AllCorpusArgs]
    \cup [cls : {"_check_prev"}, args : SeqsOf(AllVersions, 0, MaxVersions)]

InitConstruct ==
    /\ used_attributes = [g \in Registries |-> IF g = "g" THEN PyDict(EmptyDict) ELSE PyNone]
    /\ storage = NoFile
    /\ input \in ConstructInputs
    /\ last = Call("GlobalInformation", "g", <<>>, "ok")

ApplyAction == input.cls = "Action" /\ NewAction("g", input.args)

ApplyCorpusVersion == input.cls = "CorpusVersion" /\ NewCorpusVersion("g", input.args)

ApplyCorpus == input.cls = "Corpus" /\ NewCorpus("g", input.args)

ApplyCheckPrev == input.cls = "_check_prev" /\ CheckPrev(input.args)

NextConstruct == ApplyAction \/ ApplyCorpusVersion \/ ApplyCorpus \/ ApplyCheckPrev

SpecConstruct == InitConstruct /\ [][NextConstruct]_vars

(***************************************************************************)
(* Properties.                                                             *)
(***************************************************************************)
Constructors == {"Action", "CorpusVersion", "Corpus"}

\* the registry dict of the process-wide instance
Registry == used_attributes["g"].v

\* s is t or a beginning of t
IsPrefix(s, t) == Len(s) <= Len(t) /\ SubSeq(t, 1, Len(s)) = s

\* no value occurs twice
NoDuplicates(values) ==
    \A i, j \in 1..Len(values) : PyEq(values[i], values[j]) => i = j

\* C1: load and initializeEmpty succeed only on an uninitialized registry;
\* on an initialized one they fail with the assertion error and change no
\* registry; save on an uninitialized registry fails with the assertion
\* error; an initialized registry never becomes uninitialized again.
C1_Lifecycle ==
    [][\A g \in Registries :
        /\ used_attributes[g] # PyNone => used_attributes'[g] # PyNone
        /\ (last'.g = g /\ last'.op \in {"load_from_disk", "init_dict"}) =>
              /\ used_attributes[g] # PyNone =>
                    /\ last'.result = "AssertionError"
                    /\ used_attributes' = used_attributes
              /\ last'.result = "ok" =>
                    /\ used_attributes[g] = PyNone
                    /\ used_attributes'[g] # PyNone
        /\ (last'.g = g /\ last'.op = "write_to_disk" /\ used_attributes[g] = PyNone) =>
              /\ last'.result = "AssertionError"
              /\ storage' = storage]_vars

\* C1 witness: a second load or initialisation was refused on a registry
\* that holds recorded values
C1_Witness ==
    /\ last.op \in {"load_from_disk", "init_dict"}
    /\ last.result = "AssertionError"
    /\ used_attributes[last.g] # PyNone
    /\ used_attributes[last.g].v # EmptyDict

\* C2: a construction that fails leaves the registry exactly as it was.
C2_AllOrNothing ==
    [][(last'.op \in Constructors /\ last'.result # "ok")
          => used_attributes' = used_attributes]_vars

\* the data-model rules of an Action: name, src, tgt non-empty and
\* lowercase; order >= 0; script absent with order 0, or an existing
\* relative regular file named *.sh without separators
ValidActionArgs(a) ==
    /\ \A s \in {a.name, a.src, a.tgt} : Len(s.v) > 0 /\ lower(s.v) = s.v
    /\ a.order >= 0
    /\ \/ a.script = PyNone /\ a.order = 0
       \/ /\ a.script.t = "Path"
          /\ exists(a.script) /\ is_file(a.script) /\ ~is_absolute(a.script)
          /\ Chars(a.script.v) \cap {"/", "\\"} = {}
          /\ Len(a.script.v) >= 3
          /\ SubSeq(a.script.v, Len(a.script.v) - 2, Len(a.script.v)) = <<".", "s", "h">>

\* C3: an Action built from valid arguments on an initialized registry
\* succeeds, and the registry then holds its name, src, tgt, script and
\* order under "Action".
C3_ValidActionRegistered ==
    (last.op = "Action" /\ ValidActionArgs(last.args)) =>
        /\ last.result = "ok"
        /\ \A n \in {"name", "src", "tgt", "script", "order"} :
               PyIn(Action_self(last.args).attrs[n],
                    get_global_values(Registry, "Action", n))

\* the rules of the CorpusVersion fields other than langs and parallel
OtherFieldsValid(a) ==
    /\ strptime(a.date.v).ok
    /\ exists(a.path) /\ is_file(a.path) /\ ~is_absolute(a.path)
    /\ Chars(name(a.path)) \cap {"/", "\\"} = {}
    /\ Len(a.provider.v) > 0 /\ lower(a.provider.v) = a.provider.v
    /\ a.encoding.v \in ENCODINGS
    /\ a.format_.v \in FORMATS
    /\ a.released = PyNone
       \/ (url_scheme(a.released.v) # <<>> /\ url_netloc(a.released.v) # <<>>)
    /\ a.license_ # PyNone
    /\ Len(a.license_.v) > 0 /\ lower(a.license_.v) = a.license_.v

\* langs non-empty, every entry a language code, parallel only with two or
\* more entries
LangsRule(a) ==
    /\ Len(a.langs.v) > 0
    /\ \A i \in 1..Len(a.langs.v) : a.langs.v[i] \in LANGS
    /\ a.parallel.v => Len(a.langs.v) >= 2

\* C4: with the other fields valid, a CorpusVersion construction succeeds
\* exactly when the langs rule holds, and fails with the validation error
\* otherwise.
C4_LangsDecide ==
    (last.op = "CorpusVersion" /\ OtherFieldsValid(last.args)) =>
        IF LangsRule(last.args) THEN last.result = "ok"
        ELSE last.result = "AssertionError"

\* every version after the first names the path of a version of the list,
\* and the first names none
ValidChain(versions) ==
    /\ versions[1].prev = PyNone
    /\ \A i \in 2..Len(versions) :
           \E j \in 1..Len(versions) : PyEq(versions[i].prev, versions[j].path)

\* some version after the first names a path no version of the list has
Dangling(versions) ==
    \E i \in 2..Len(versions) :
        \A j \in 1..Len(versions) : ~PyEq(versions[i].prev, versions[j].path)

\* C5: with valid names and a non-empty version list, a Corpus construction
\* fails with the validation error when a later version's prev is dangling,
\* and succeeds when the versions form a valid single-root chain.
C5_Lineage ==
    (/\ last.op = "Corpus"
     /\ Len(last.args.dir_name.v) > 0
     /\ lower(last.args.dir_name.v) = last.args.dir_name.v
     /\ Len(last.args.pretty_name.v) > 0
     /\ Len(last.args.corpus_versions) > 0) =>
        /\ Dangling(last.args.corpus_versions) => last.result = "AssertionError"
        /\ ValidChain(last.args.corpus_versions) => last.result = "ok"

\* C6: in every step each recorded value sequence keeps its values in
\* place and grows by at most one value at its end, and no sequence holds a
\* value twice; so recording a value already present changes nothing.
C6_Idempotent ==
    [][\A g \in Registries :
        (used_attributes[g] # PyNone /\ used_attributes'[g] # PyNone) =>
            LET pre == used_attributes[g].v
                post == used_attributes'[g].v
            IN  /\ \A c \in DOMAIN pre :
                       /\ c \in DOMAIN post
                       /\ \A a \in DOMAIN pre[c] :
                              /\ a \in DOMAIN post[c]
                              /\ IsPrefix(pre[c][a], post[c][a])
                              /\ Len(post[c][a]) <= Len(pre[c][a]) + 1
                /\ \A c \in DOMAIN post : \A a \in DOMAIN post[c] :
                       NoDuplicates(post[c][a])]_vars

\* C6 witness: the provider of the last recording was the first of two
\* providers already recorded, and is still recorded once
C6_Witness ==
    /\ last.op = "_add_global_attributes"
    /\ last.result = "ok"
    /\ last.args.attribute_names[1] = "provider"
    /\ Len(get_global_values(Registry, "CorpusVersion", "provider")) = 2
    /\ PyEq(get_global_values(Registry, "CorpusVersion", "provider")[1],
            last.args.self.attrs.provider)

\* C7: format, encoding and langs are never keys of the registry.
C7_ExcludedNeverKeys ==
    \A g \in Registries :
        used_attributes[g] # PyNone =>
            \A c \in DOMAIN used_attributes[g].v :
                (DOMAIN used_attributes[g].v[c]) \cap {"format", "encoding", "langs"} = {}

\* C7 witness: a recording was asked for provider and then format, and the
\* provider is in the registry
C7_Witness ==
    /\ last.op = "_add_global_attributes"
    /\ last.args.attribute_names = <<"provider", "format">>
    /\ PyIn(last.args.self.attrs.provider,
            get_global_values(Registry, "CorpusVersion", "provider"))

\* C8: saving an initialized registry succeeds, and what the file then
\* holds loads back as the same mapping.
C8_RoundTrip ==
    (last.op = "write_to_disk" /\ used_attributes[last.g] # PyNone) =>
        /\ last.result = "ok"
        /\ storage.t = "json"
        /\ json_loads(storage.doc) = used_attributes[last.g].v

\* C9: after a recording that returns, the value of every eligible name of
\* the list is in the registry, whatever precedes it in the list; and a
\* CorpusVersion or Corpus that was built has its eligible values recorded.
C9_EveryEligibleRecorded ==
    /\ (last.op = "_add_global_attributes" /\ last.result = "ok") =>
           \A i \in 1..Len(last.args.attribute_names) :
               LET n == last.args.attribute_names[i]
               IN  _allow_new(n) =>
                       PyIn(last.args.self.attrs[n],
                            get_global_values(Registry, last.args.self.cls, n))
    /\ (last.op = "CorpusVersion" /\ last.result = "ok") =>
           \A n \in {"released", "actions"} :
               PyIn(CorpusVersion_self(last.args).attrs[n],
                    get_global_values(Registry, "CorpusVersion", n))
    /\ (last.op = "Corpus" /\ last.result = "ok") =>
           \A n \in {"dir_name", "pretty_name", "corpus_versions"} :
               PyIn(Corpus_self(last.args).attrs[n],
                    get_global_values(Registry, "Corpus", n))

\* C10: a version list the lineage check accepts has its only root first:
\* the first version has no prev and every later version has one.
C10_SingleRoot ==
    (\/ last.op = "_check_prev" /\ last.result = "True"
     \/ /\ last.op = "Corpus"
        /\ Corpus_check_fields(last.args) = "ok") =>
        LET versions == IF last.op = "Corpus" THEN last.args.corpus_versions
                        ELSE last.args
        IN  /\ versions[1].prev = PyNone
            /\ \A i \in 2..Len(versions) : versions[i].prev # PyNone

\* C10 witness: the check accepted a list of three versions
C10_Witness ==
    /\ last.op = "_check_prev"
    /\ last.result = "True"
    /\ Len(last.args) = 3

====
